---- MODULE Spec2Model ----
(***************************************************************************)
(* A model of the cursive toolkit (csvcut, csvgrep, csvsort and the        *)
(* original cursive command): the shared record pipeline                   *)
(* CSVProcessor.Process, the sort engine CSVProcessor.Sort, the            *)
(* comparator cmp / createSortFunc and the column-spec parser              *)
(* ParseFieldRanges.                                                       *)
(*                                                                         *)
(* A Go string is modelled as the sequence of its bytes (ASCII codes), so  *)
(* that byte-wise comparison, trimming, parsing and formatting are         *)
(* computed the way the code computes them.                                *)
(***************************************************************************)
EXTENDS Integers, Sequences, FiniteSets, TLC

(***************************************************************************)
(* Bounds of the model.                                                    *)
(***************************************************************************)
\* longest string over StrAlphabet drawn as a comparator operand
MaxStrLen == 2
\* longest column-spec string handed to ParseFieldRanges
MaxSpecLen == 4
\* most physical records of one streaming run
MaxRecords == 4
\* largest ignore-end count of a run
MaxIgnoreEnd == 2
\* most physical records of one sort run
MaxSortRecords == 3

(***************************************************************************)
(* Byte strings.                                                           *)
(***************************************************************************)
NoStr == <<>>

Min2(x, y) == IF x < y THEN x ELSE y

SetMin(S) == CHOOSE x \in S : \A y \in S : x <= y

RECURSIVE Pow10(_)
Pow10(n) == IF n <= 0 THEN 1 ELSE 10 * Pow10(n - 1)

\* all sequences over A of length 0..n
RECURSIVE SeqsUpTo(_, _)
SeqsUpTo(A, n) ==
    IF n = 0 THEN {<<>>}
    ELSE LET S == SeqsUpTo(A, n - 1)
         IN S \cup {Append(s, a) : s \in {t \in S : Len(t) = n - 1}, a \in A}

IsDigit(c) == c \in 48..57

IsSpace(c) == c \in {9, 10, 11, 12, 13, 32}

Lower(c) == IF c \in 65..90 THEN c + 32 ELSE c

LowerStr(s) == [i \in 1..Len(s) |-> Lower(s[i])]

SetMax(S) == CHOOSE x \in S : \A y \in S : x >= y

\* strings.TrimSpace
TrimSpace(s) ==
    LET N == {i \in 1..Len(s) : ~IsSpace(s[i])}
    IN  IF N = {} THEN <<>> ELSE SubSeq(s, SetMin(N), SetMax(N))

\* value of a string of decimal digits
RECURSIVE DigitsVal(_)
DigitsVal(s) ==
    IF Len(s) = 0 THEN 0
    ELSE 10 * DigitsVal(SubSeq(s, 1, Len(s) - 1)) + (s[Len(s)] - 48)

\* strconv.Itoa
RECURSIVE UItoa(_)
UItoa(n) == IF n < 10 THEN <<48 + n>> ELSE Append(UItoa(n \div 10), 48 + (n % 10))

Itoa(n) == IF n < 0 THEN <<45>> \o UItoa(0 - n) ELSE UItoa(n)

(***************************************************************************)
(* strconv.ParseFloat(s, 64), for the strings the model draws: an optional *)
(* sign, then decimal digits with at most one point (at least one digit),  *)
(* or "nan" / "inf" / "infinity" in any letter case (no sign before nan).  *)
(* Everything else over the model's alphabets is a syntax error.  The      *)
(* exponent, hexadecimal and underscore forms are not drawn.  A finite     *)
(* value is kept exactly, as mant / 10^frac.                               *)
(***************************************************************************)
S_nan == <<110, 97, 110>>
S_inf == <<105, 110, 102>>
S_infinity == <<105, 110, 102, 105, 110, 105, 116, 121>>

ParseFail == [ok |-> FALSE, kind |-> "err", neg |-> FALSE, mant |-> 0, frac |-> 0]

ParseFloat(s) ==
    LET hasSign == Len(s) > 0 /\ s[1] \in {43, 45}
        neg == hasSign /\ s[1] = 45
        t == IF hasSign THEN Tail(s) ELSE s
        points == {i \in 1..Len(t) : t[i] = 46}
        digits == SelectSeq(t, IsDigit)
        p == IF points = {} THEN Len(t) + 1 ELSE SetMin(points)
    IN  IF LowerStr(s) = S_nan
        THEN [ok |-> TRUE, kind |-> "nan", neg |-> FALSE, mant |-> 0, frac |-> 0]
        ELSE IF LowerStr(t) \in {S_inf, S_infinity}
        THEN [ok |-> TRUE, kind |-> "inf", neg |-> neg, mant |-> 0, frac |-> 0]
        ELSE IF /\ Len(digits) > 0
                /\ Cardinality(points) <= 1
                /\ \A i \in 1..Len(t) : IsDigit(t[i]) \/ t[i] = 46
        THEN [ok |-> TRUE, kind |-> "num", neg |-> neg,
              mant |-> DigitsVal(digits), frac |-> IF points = {} THEN 0 ELSE Len(t) - p]
        ELSE ParseFail

\* the float64 comparison f1 < f2 (false whenever an operand is NaN)
FloatLess(f1, f2) ==
    LET v1 == (IF f1.neg THEN 0 - f1.mant ELSE f1.mant) * Pow10(f2.frac)
        v2 == (IF f2.neg THEN 0 - f2.mant ELSE f2.mant) * Pow10(f1.frac)
    IN  IF f1.kind = "nan" \/ f2.kind = "nan" THEN FALSE
        ELSE IF f1.kind = "inf" THEN f1.neg /\ ~(f2.kind = "inf" /\ f2.neg)
        ELSE IF f2.kind = "inf" THEN ~f2.neg
        ELSE v1 < v2

(***************************************************************************)
(* The comparator of csvsort.  trim is TRUE for the csvsort that trims     *)
(* white space before strconv.ParseFloat and FALSE for the one that does   *)
(* not.                                                                    *)
(***************************************************************************)
Flag_n == 110
Flag_s == 115

\* the strcmp: part of cmp
\* the string comparison without the final length tie-break
StrCmpNoLength(a, b) ==
    LET min == IF Len(a) < Len(b) THEN Len(a) ELSE Len(b)
        D == {i \in 1..min : a[i] # b[i]}
    IN  IF D = {} THEN 0
        ELSE a[SetMin(D)] - b[SetMin(D)]

StrCmp(a, b) ==
    LET min == IF Len(a) < Len(b) THEN Len(a) ELSE Len(b)
        D == {i \in 1..min : a[i] # b[i]}
    IN  IF D = {} THEN Len(a) - Len(b)
        ELSE a[SetMin(D)] - b[SetMin(D)]

\* the case 'n' with the results of the two one-sided failures exchanged
cmpNumericParsedFirst(f1, f2, a, b) ==
    IF ~f1.ok /\ ~f2.ok THEN StrCmp(a, b)
    ELSE IF ~f1.ok THEN 1
    ELSE IF ~f2.ok THEN 0 - 1
    ELSE IF FloatLess(f1, f2) THEN 0 - 1
    ELSE IF FloatLess(f2, f1) THEN 1
    ELSE 0

\* the case 'n' of cmp, f1 and f2 being what strconv.ParseFloat returned
cmpNumeric(f1, f2, a, b) ==
    IF ~f1.ok /\ ~f2.ok THEN StrCmp(a, b)
    ELSE IF ~f1.ok THEN 0 - 1
    ELSE IF ~f2.ok THEN 1
    ELSE IF FloatLess(f1, f2) THEN 0 - 1
    ELSE IF FloatLess(f2, f1) THEN 1
    ELSE 0

cmp(a, b, flag, trim) ==
    IF flag = Flag_n
    THEN cmpNumeric(ParseFloat(IF trim THEN TrimSpace(a) ELSE a),
                    ParseFloat(IF trim THEN TrimSpace(b) ELSE b), a, b)
    ELSE StrCmp(a, b)

(***************************************************************************)
(* The column-spec parser (common.ParseFieldRanges).                       *)
(***************************************************************************)
Int32Max == 2147483647

\* strconv.ParseInt(s, 10, 32): an optional sign, then at least one decimal
\* digit and nothing else; the value must fit 32 bits
ParseInt(s) ==
    LET hasSign == Len(s) > 0 /\ s[1] \in {43, 45}
        neg == hasSign /\ s[1] = 45
        t == IF hasSign THEN Tail(s) ELSE s
        v == DigitsVal(t)
    IN  IF Len(t) = 0 \/ \E i \in 1..Len(t) : ~IsDigit(t[i])
        THEN [ok |-> FALSE, val |-> 0]
        ELSE IF (neg /\ v - 1 > Int32Max) \/ (~neg /\ v > Int32Max)
        THEN [ok |-> FALSE, val |-> 0]
        ELSE [ok |-> TRUE, val |-> IF neg THEN 0 - v ELSE v]

\* strings.Split(s, sep) for a one-byte separator
RECURSIVE Split(_, _)
Split(s, sep) ==
    LET P == {i \in 1..Len(s) : s[i] = sep}
    IN  IF P = {} THEN <<s>>
        ELSE <<SubSeq(s, 1, SetMin(P) - 1)>>
                 \o Split(SubSeq(s, SetMin(P) + 1, Len(s)), sep)

\* strings.SplitN(s, sep, 2) for a one-byte separator
SplitN2(s, sep) ==
    LET P == {i \in 1..Len(s) : s[i] = sep}
    IN  IF P = {} THEN <<s>>
        ELSE <<SubSeq(s, 1, SetMin(P) - 1), SubSeq(s, SetMin(P) + 1, Len(s))>>

FieldRange(start, end, flag) == [Start |-> start, End |-> end, Flag |-> flag]

NoRange == [ok |-> FALSE, fr |-> FieldRange(0, 0, 0)]

\* parseFieldRange keeping the 1-based number as the start
parseFieldRangeOneBased(str0) ==
    LET hasFlag == Len(str0) > 0 /\ str0[Len(str0)] \in 97..122
        flag == IF hasFlag THEN str0[Len(str0)] ELSE 0
        str == IF hasFlag THEN SubSeq(str0, 1, Len(str0) - 1) ELSE str0
        splits == SplitN2(str, 45)
        i == ParseInt(splits[1])
        i2 == ParseInt(splits[2])
    IN  IF ~i.ok THEN NoRange
        ELSE IF Len(splits) = 1
        THEN [ok |-> TRUE, fr |-> FieldRange(i.val, 0 - 1, flag)]
        ELSE IF ~i2.ok THEN NoRange
        ELSE [ok |-> TRUE, fr |-> FieldRange(i.val, i2.val - 1, 0)]

parseFieldRange(str0) ==
    LET hasFlag == Len(str0) > 0 /\ str0[Len(str0)] \in 97..122
        flag == IF hasFlag THEN str0[Len(str0)] ELSE 0
        str == IF hasFlag THEN SubSeq(str0, 1, Len(str0) - 1) ELSE str0
        splits == SplitN2(str, 45)
        i == ParseInt(splits[1])
        i2 == ParseInt(splits[2])
    IN  IF ~i.ok THEN NoRange
        ELSE IF Len(splits) = 1
        THEN [ok |-> TRUE, fr |-> FieldRange(i.val - 1, 0 - 1, flag)]
        ELSE IF ~i2.ok THEN NoRange
        ELSE [ok |-> TRUE, fr |-> FieldRange(i.val - 1, i2.val - 1, 0)]

\* frs = <<>> stands for the nil slice
ParseFieldRanges(ranges) ==
    LET splits == Split(ranges, 44)
        each == [k \in 1..Len(splits) |-> parseFieldRange(splits[k])]
    IN  IF ranges = <<>> THEN [ok |-> TRUE, frs |-> <<>>]
        ELSE IF \E k \in 1..Len(splits) : ~each[k].ok
        THEN [ok |-> FALSE, frs |-> <<>>]
        ELSE [ok |-> TRUE, frs |-> [k \in 1..Len(splits) |-> each[k].fr]]

(***************************************************************************)
(* Records and the per-tool record transforms.  A transform returns        *)
(* kind "ok" with a record (nil = TRUE for Go's nil slice: nothing to      *)
(* emit), kind "err" with the index and length its error message carries,  *)
(* or kind "panic" when the Go runtime stops the program on an index out   *)
(* of range.                                                               *)
(***************************************************************************)
S_N == <<78>>
S_empty == <<>>
S_quotes == <<34, 34>>

OkRec(r) == [kind |-> "ok", nil |-> FALSE, rec |-> r, idx |-> 0, len |-> 0]
NilRec == [kind |-> "ok", nil |-> TRUE, rec |-> <<>>, idx |-> 0, len |-> 0]
ErrRec(i, n) == [kind |-> "err", nil |-> TRUE, rec |-> <<>>, idx |-> i, len |-> n]
PanicRec == [kind |-> "panic", nil |-> TRUE, rec |-> <<>>, idx |-> 0, len |-> 0]

\* header names counted from 0
createHeaderRecordFromZero(sz) == [k \in 1..sz |-> <<67>> \o Itoa(k - 1)]

createHeaderRecord(sz) == [k \in 1..sz |-> <<67>> \o Itoa(k)]

\* isEmptyRecord counting only the empty string as empty
isEmptyRecordNoQuotes(r, ignoreFirst) ==
    \A k \in 1..Len(r) : (ignoreFirst /\ k = 1) \/ r[k] = S_empty

isEmptyRecord(r, ignoreFirst) ==
    \A k \in 1..Len(r) :
        (ignoreFirst /\ k = 1) \/ r[k] = S_empty \/ r[k] = S_quotes

\* the loop of processRecord with i < r.End as the bound of a span
RECURSIVE cutRangesExclusiveEnd(_, _, _)
cutRangesExclusiveEnd(frs, record, buffer) ==
    IF frs = <<>> THEN OkRec(buffer)
    ELSE LET r == Head(frs)
         IN  IF r.Start >= Len(record) THEN ErrRec(r.Start, Len(record))
             ELSE IF r.End < 0
             THEN IF r.Start < 0 THEN PanicRec
                  ELSE cutRangesExclusiveEnd(Tail(frs), record,
                                             Append(buffer, record[r.Start + 1]))
             ELSE IF r.Start <= r.End /\ (r.Start < 0 \/ r.End >= Len(record))
             THEN PanicRec
             ELSE cutRangesExclusiveEnd(Tail(frs), record,
                                        buffer \o SubSeq(record, r.Start + 1, r.End))

\* csvcut processRecord; record[i] of the code is record[i + 1] here
RECURSIVE cutRanges(_, _, _)
cutRanges(frs, record, buffer) ==
    IF frs = <<>> THEN OkRec(buffer)
    ELSE LET r == Head(frs)
         IN  IF r.Start >= Len(record) THEN ErrRec(r.Start, Len(record))
             ELSE IF r.End < 0
             THEN IF r.Start < 0 THEN PanicRec
                  ELSE cutRanges(Tail(frs), record, Append(buffer, record[r.Start + 1]))
             ELSE IF r.Start <= r.End /\ (r.Start < 0 \/ r.End >= Len(record))
             THEN PanicRec
             ELSE cutRanges(Tail(frs), record,
                            buffer \o SubSeq(record, r.Start + 1, r.End + 1))

cutProcessRecord(fieldRanges, record, buffer) ==
    IF fieldRanges = <<>> THEN OkRec(buffer \o record)
    ELSE cutRanges(fieldRanges, record, buffer)

\* regexp MatchString and ReplaceAllString for a pattern that is a non-empty
\* literal and a replacement template without $ references
MatchString(pat, str) ==
    \E i \in 1..(Len(str) - Len(pat) + 1) : SubSeq(str, i, i + Len(pat) - 1) = pat

RECURSIVE ReplaceAllString(_, _, _)
ReplaceAllString(pat, str, with) ==
    LET M == {i \in 1..(Len(str) - Len(pat) + 1) : SubSeq(str, i, i + Len(pat) - 1) = pat}
    IN  IF M = {} THEN str
        ELSE SubSeq(str, 1, SetMin(M) - 1) \o with
                 \o ReplaceAllString(pat, SubSeq(str, SetMin(M) + Len(pat), Len(str)), with)

\* the loop over the rules dropping the record when the match result
\* differs from invert
RECURSIVE grepRulesDropMatches(_, _, _, _, _)
grepRulesDropMatches(rs, buffer, buflen, filterMode, invert) ==
    IF rs = <<>> THEN OkRec(buffer)
    ELSE LET r == Head(rs)
             n == Len(buffer) - buflen
             f == buffer[buflen + r.field + 1]
         IN  IF r.field < 0 \/ r.field >= n THEN ErrRec(r.field, n)
             ELSE IF filterMode /\ (MatchString(r.re, f) # invert) THEN NilRec
             ELSE grepRulesDropMatches(Tail(rs),
                            IF r.isReplace
                            THEN [buffer EXCEPT ![buflen + r.field + 1] =
                                      ReplaceAllString(r.re, f, r.with)]
                            ELSE buffer,
                            buflen, filterMode, invert)

\* csvgrep processRecord: the loop over the rules, record being the part of
\* buffer after its first buflen fields
RECURSIVE grepRules(_, _, _, _, _)
grepRules(rs, buffer, buflen, filterMode, invert) ==
    IF rs = <<>> THEN OkRec(buffer)
    ELSE LET r == Head(rs)
             n == Len(buffer) - buflen
             f == buffer[buflen + r.field + 1]
         IN  IF r.field < 0 \/ r.field >= n THEN ErrRec(r.field, n)
             ELSE IF filterMode /\ (MatchString(r.re, f) = invert) THEN NilRec
             ELSE grepRules(Tail(rs),
                            IF r.isReplace
                            THEN [buffer EXCEPT ![buflen + r.field + 1] =
                                      ReplaceAllString(r.re, f, r.with)]
                            ELSE buffer,
                            buflen, filterMode, invert)

grepProcessRecord(replacements, record, buffer, isheader, filterMode, invert) ==
    IF replacements = <<>> \/ isheader THEN OkRec(buffer \o record)
    ELSE grepRules(replacements, buffer \o record, Len(buffer), filterMode, invert)

(***************************************************************************)
(* The original cursive command: its own 0-based range parser without      *)
(* type hints, and writeFields.                                            *)
(***************************************************************************)
cursiveParseFieldRange(str) ==
    LET splits == SplitN2(str, 45)
        i == ParseInt(splits[1])
        i2 == ParseInt(splits[2])
    IN  IF ~i.ok THEN NoRange
        ELSE IF Len(splits) = 1
        THEN [ok |-> TRUE, fr |-> FieldRange(i.val, 0 - 1, 0)]
        ELSE IF ~i2.ok THEN NoRange
        ELSE [ok |-> TRUE, fr |-> FieldRange(i.val, i2.val, 0)]

cursiveParseFieldRanges(ranges) ==
    LET splits == Split(ranges, 44)
        each == [k \in 1..Len(splits) |-> cursiveParseFieldRange(splits[k])]
    IN  IF ranges = <<>> THEN [ok |-> TRUE, frs |-> <<>>]
        ELSE IF \E k \in 1..Len(splits) : ~each[k].ok
        THEN [ok |-> FALSE, frs |-> <<>>]
        ELSE [ok |-> TRUE, frs |-> [k \in 1..Len(splits) |-> each[k].fr]]

writeFields(fieldRanges, record) ==
    IF fieldRanges = <<>> THEN OkRec(record)
    ELSE cutRanges(fieldRanges, record, <<>>)

(***************************************************************************)
(* State.                                                                  *)
(***************************************************************************)
VARIABLES
    \* comparator runs: the operands, the flag and tool version, the results
    ca, cb, cc, cflag, ctrim, cres,
    \* parser runs: the column-spec string and what ParseFieldRanges returned
    colSpec, parsed,
    \* a run of a tool: which tool, the CSVProcessor options, the transform's
    \* configuration (ranges, regexp rules, filter flags)
    tool, proc, xf,
    \* the records the reader has returned so far, in order
    input,
    \* the locals of Process / of cursive's main loop
    footerBuffer, footerBufferLocation, line, isFirst, ignore,
    \* the records handed to the csv writer, each with the position in input of
    \* the record it was made from (0: the synthesized header), and how many
    \* of them a Flush has pushed to the output sink
    out, flushed,
    \* "run", "done" (nil returned), "error" (an error returned), "panic"
    status, err,
    \* every call of the record transform so far: source position, the record
    \* passed, isHeader, lineNo
    calls

cmpVars == <<ca, cb, cc, cflag, ctrim, cres>>
parseVars == <<colSpec, parsed>>
cfgVars == <<tool, proc, xf>>
runVars == <<input, footerBuffer, footerBufferLocation, line, isFirst, ignore,
             out, flushed, status, err, calls>>
vars == <<ca, cb, cc, cflag, ctrim, cres, colSpec, parsed, tool, proc, xf,
          input, footerBuffer, footerBufferLocation, line, isFirst, ignore,
          out, flushed, status, err, calls>>

NoRes == [ab |-> 0, ba |-> 0, bc |-> 0, ac |-> 0, aa |-> 0, done |-> FALSE]

NotParsed == [done |-> FALSE, ok |-> FALSE, frs |-> <<>>]

CmpIdle ==
    /\ ca = <<>> /\ cb = <<>> /\ cc = <<>>
    /\ cflag = 0 /\ ctrim = FALSE /\ cres = NoRes

ParseIdle == colSpec = <<>> /\ parsed = NotParsed

NoErr == [kind |-> "none", idx |-> 0, len |-> 0]

NoXf == [ranges |-> <<>>, repl |-> <<>>, filterMode |-> FALSE, invert |-> FALSE,
         reverse |-> FALSE]

NoProc == [IgnoreBeginning |-> 0, IgnoreEnd |-> 0, NoHeader |-> FALSE, LineNumbers |-> FALSE,
           ZeroBased |-> FALSE, DeleteEmpty |-> FALSE]

RunIdle ==
    /\ tool = "none" /\ proc = NoProc /\ xf = NoXf
    /\ input = <<>> /\ footerBuffer = <<>> /\ footerBufferLocation = 0
    /\ line = 0 /\ isFirst = FALSE /\ ignore = 0
    /\ out = <<>> /\ flushed = 0 /\ status = "idle" /\ err = NoErr
    /\ calls = <<>>

(***************************************************************************)
(* Comparator runs: cmp applied to operands drawn from CmpPool.            *)
(***************************************************************************)
StrAlphabet == {50, 97}

\* "10" "9" "5" "2.0" " 2" "2 " "-1" "abc" "def" "NaN"
NumPool ==
    { <<49, 48>>, <<57>>, <<53>>, <<50, 46, 48>>, <<32, 50>>, <<50, 32>>,
      <<45, 49>>, <<97, 98, 99>>, <<100, 101, 102>>, <<78, 97, 78>> }

CmpPool == NumPool \cup SeqsUpTo(StrAlphabet, MaxStrLen)

CmpInit ==
    /\ ca \in CmpPool
    /\ cb \in CmpPool
    /\ cc \in CmpPool
    /\ cflag \in {Flag_n, Flag_s, 0}
    /\ ctrim \in BOOLEAN
    /\ cres = NoRes
    /\ ParseIdle
    /\ RunIdle

CmpApply ==
    /\ ~cres.done
    /\ cres' = [ab |-> cmp(ca, cb, cflag, ctrim),
                ba |-> cmp(cb, ca, cflag, ctrim),
                bc |-> cmp(cb, cc, cflag, ctrim),
                ac |-> cmp(ca, cc, cflag, ctrim),
                aa |-> cmp(ca, ca, cflag, ctrim),
                done |-> TRUE]
    /\ UNCHANGED <<ca, cb, cc, cflag, ctrim>>
    /\ UNCHANGED <<parseVars, cfgVars, runVars>>

CmpNext == CmpApply

SpecCmp == CmpInit /\ [][CmpNext]_vars

(***************************************************************************)
(* Parser runs: ParseFieldRanges applied to a column spec over             *)
(* SpecAlphabet = 1 3 - , n X.                                             *)
(***************************************************************************)
SpecAlphabet == {49, 51, 45, 44, 110, 88}

ParseInit ==
    /\ colSpec \in SeqsUpTo(SpecAlphabet, MaxSpecLen)
    /\ parsed = NotParsed
    /\ CmpIdle
    /\ RunIdle

ParseApply ==
    /\ ~parsed.done
    /\ parsed' = [done |-> TRUE, ok |-> ParseFieldRanges(colSpec).ok,
                  frs |-> ParseFieldRanges(colSpec).frs]
    /\ UNCHANGED colSpec
    /\ UNCHANGED <<cmpVars, cfgVars, runVars>>

ParseNext == ParseApply

SpecParse == ParseInit /\ [][ParseNext]_vars

(***************************************************************************)
(* Streaming runs: csvcut (Process with the struct's ProcessFunc and       *)
(* DeleteEmpty), csvgrep (Process(processFunc, false)) and the main loop   *)
(* of the original cursive command.  The reader hands over one record of   *)
(* RecordPool at a time, reports the end of the stream, or fails.  The csv *)
(* writer is taken to accept every record: Write and Flush do not fail.    *)
(***************************************************************************)
\* a,TOP   b,x   (empty),""   c
RecordPool ==
    { <<<<97>>, <<84, 79, 80>>>>, <<<<98>>, <<120>>>>, <<S_empty, S_quotes>>, <<<<99>>>> }

\* -c of csvcut: (none)  2,1  1-2  0
CutColumns == { <<>>, <<50, 44, 49>>, <<49, 45, 50>>, <<48>> }

\* -of of cursive: (none)  1  0-1
CursiveColumns == { <<>>, <<49>>, <<48, 45, 49>> }

Rule(field, re, isReplace, with) ==
    [field |-> field, re |-> re, isReplace |-> isReplace, with |-> with]

\* the -rN / -wN rules of csvgrep: none; -r2=TOP; -r1=a -w1=z -r2=TOP
GrepRules ==
    { <<>>,
      <<Rule(1, <<84, 79, 80>>, FALSE, <<>>)>>,
      <<Rule(0, <<97>>, TRUE, <<122>>), Rule(1, <<84, 79, 80>>, FALSE, <<>>)>> }

CutConfigs ==
    { [tool |-> "csvcut",
       proc |-> [IgnoreBeginning |-> 0, IgnoreEnd |-> k, NoHeader |-> nh,
                 LineNumbers |-> ln[1], ZeroBased |-> ln[2], DeleteEmpty |-> de],
       xf |-> [ranges |-> ParseFieldRanges(cs).frs, repl |-> <<>>,
               filterMode |-> FALSE, invert |-> FALSE, reverse |-> FALSE]] :
        k \in 0..MaxIgnoreEnd, nh \in BOOLEAN,
        ln \in {<<FALSE, FALSE>>, <<TRUE, FALSE>>, <<TRUE, TRUE>>},
        de \in BOOLEAN, cs \in CutColumns }

GrepConfigs ==
    { [tool |-> "csvgrep",
       proc |-> [IgnoreBeginning |-> 0, IgnoreEnd |-> k, NoHeader |-> nh,
                 LineNumbers |-> FALSE, ZeroBased |-> FALSE, DeleteEmpty |-> FALSE],
       xf |-> [ranges |-> <<>>, repl |-> rs, filterMode |-> fm, invert |-> iv,
               reverse |-> FALSE]] :
        k \in 0..MaxIgnoreEnd, nh \in BOOLEAN, rs \in GrepRules,
        fm \in BOOLEAN, iv \in BOOLEAN }

CursiveConfigs ==
    { [tool |-> "cursive",
       proc |-> [IgnoreBeginning |-> ig, IgnoreEnd |-> k, NoHeader |-> FALSE,
                 LineNumbers |-> FALSE, ZeroBased |-> FALSE, DeleteEmpty |-> FALSE],
       xf |-> [ranges |-> cursiveParseFieldRanges(cs).frs, repl |-> <<>>,
               filterMode |-> FALSE, invert |-> FALSE, reverse |-> FALSE]] :
        k \in 0..MaxIgnoreEnd, cs \in CursiveColumns, ig \in 0..1 }

\* an entry of out or of the ring: the record and where it came from
Entry(src, rec) == [src |-> src, rec |-> rec, nil |-> FALSE]
NilEntry == [src |-> 0, rec |-> <<>>, nil |-> TRUE]

Call(src, record, isHeader, lineNo) ==
    [src |-> src, rec |-> record, isHeader |-> isHeader, lineNo |-> lineNo]

\* a cursor that is never advanced
AdvanceCursorStuck(loc, K) == loc

\* the write cursor of the ring after a record was stored
AdvanceCursor(loc, K) == (loc + 1) % K

\* a line counter that is not set back for the header row
InitLineNoHeaderRow(p) == IF p.ZeroBased THEN 0 ELSE 1

\* the line counter before the loop
InitLine(p) == (IF p.ZeroBased THEN 0 ELSE 1) - (IF p.NoHeader THEN 0 ELSE 1)

Init ==
    /\ \E cfg \in CutConfigs \cup GrepConfigs \cup CursiveConfigs :
         /\ tool = cfg.tool
         /\ proc = cfg.proc
         /\ xf = cfg.xf
         /\ ignore = cfg.proc.IgnoreBeginning
         /\ footerBuffer = [k \in 1..cfg.proc.IgnoreEnd |-> NilEntry]
         /\ line = IF cfg.tool = "cursive" THEN 0 ELSE InitLine(cfg.proc)
         /\ isFirst = (cfg.tool # "cursive")
    /\ footerBufferLocation = 0
    /\ input = <<>>
    /\ out = <<>>
    /\ flushed = 0
    /\ status = "run"
    /\ err = NoErr
    /\ calls = <<>>
    /\ CmpIdle
    /\ ParseIdle

\* the record transform the tool hands to Process
Transform(record, buffer, isHeader, lineNo) ==
    IF tool = "csvcut" THEN cutProcessRecord(xf.ranges, record, buffer)
    ELSE grepProcessRecord(xf.repl, record, buffer, isHeader, xf.filterMode, xf.invert)

\* the records still in the ring, oldest first
Residents ==
    SelectSeq([k \in 1..proc.IgnoreEnd |->
                   footerBuffer[((footerBufferLocation + k - 1) % proc.IgnoreEnd) + 1]],
              LAMBDA e : ~e.nil)

\* leaving the loop on an error after writing out what the ring holds
StopDrain(res, out1, calls1) ==
    /\ out' = out1 \o Residents
    /\ calls' = calls1
    /\ status' = IF res.kind = "panic" THEN "panic" ELSE "error"
    /\ err' = IF res.kind = "panic" THEN NoErr
              ELSE [kind |-> "field", idx |-> res.idx, len |-> res.len]
    /\ flushed' = IF res.kind = "panic" THEN flushed ELSE Len(out')
    /\ UNCHANGED <<footerBuffer, footerBufferLocation, line, isFirst>>

\* the loop is left on an error (break, Flush, return err) or the program
\* dies on a panic (nothing is flushed)
Stop(res, out1, calls1) ==
    /\ out' = out1
    /\ calls' = calls1
    /\ status' = IF res.kind = "panic" THEN "panic" ELSE "error"
    /\ err' = IF res.kind = "panic" THEN NoErr
              ELSE [kind |-> "field", idx |-> res.idx, len |-> res.len]
    /\ flushed' = IF res.kind = "panic" THEN flushed ELSE Len(out1)
    /\ UNCHANGED <<footerBuffer, footerBufferLocation, line, isFirst>>

\* one iteration of the loop of Process on the record the reader returned
ProcessRecord(record) ==
    /\ status = "run"
    /\ tool \in {"csvcut", "csvgrep"}
    /\ Len(input) < MaxRecords
    /\ input' = Append(input, record)
    /\ UNCHANGED <<cfgVars, ignore, cmpVars, parseVars>>
    /\ LET src == Len(input) + 1
           K == proc.IgnoreEnd
           synth == isFirst /\ proc.NoHeader
           h == Transform(createHeaderRecord(Len(record)),
                          IF proc.LineNumbers THEN <<S_N>> ELSE <<>>, TRUE, line)
           calls1 == IF synth THEN Append(calls, Call(0, createHeaderRecord(Len(record)), TRUE, line)) ELSE calls
           \* csvcut's Process writes the header without the nil check
           out1 == IF synth /\ h.kind = "ok" /\ (~h.nil \/ tool = "csvcut")
                   THEN Append(out, Entry(0, h.rec)) ELSE out
           isFirst1 == isFirst /\ ~synth
           first == IF isFirst1 THEN S_N ELSE Itoa(line)
           isHeader == (~proc.NoHeader) /\ isFirst1
           o == Transform(record, IF proc.LineNumbers THEN <<first>> ELSE <<>>,
                          isHeader, line)
           calls2 == Append(calls1, Call(src, record, isHeader, line))
           slot == footerBuffer[footerBufferLocation + 1]
           keep == ~proc.DeleteEmpty \/ ~isEmptyRecord(o.rec, proc.LineNumbers)
           out2 == IF K > 0
                   THEN IF ~slot.nil THEN Append(out1, slot) ELSE out1
                   ELSE IF keep /\ (~o.nil \/ tool = "csvcut")
                        THEN Append(out1, Entry(src, o.rec)) ELSE out1
       IN  IF synth /\ h.kind # "ok" THEN Stop(h, out, calls1)
           ELSE IF o.kind # "ok" THEN Stop(o, out1, calls2)
           ELSE /\ out' = out2
                /\ calls' = calls2
                /\ footerBuffer' =
                       IF K > 0 /\ keep
                       THEN [footerBuffer EXCEPT ![footerBufferLocation + 1] =
                                 IF o.nil THEN NilEntry ELSE Entry(src, o.rec)]
                       ELSE footerBuffer
                /\ footerBufferLocation' =
                       IF K > 0 /\ keep
                       THEN AdvanceCursor(footerBufferLocation, K)
                       ELSE footerBufferLocation
                /\ isFirst' = FALSE
                /\ line' = line + 1
                /\ UNCHANGED <<flushed, status, err>>

\* one iteration of the loop of cursive's main
CursiveRecord(record) ==
    /\ status = "run"
    /\ tool = "cursive"
    /\ Len(input) < MaxRecords
    /\ input' = Append(input, record)
    /\ UNCHANGED <<cfgVars, cmpVars, parseVars, line, isFirst>>
    /\ LET src == Len(input) + 1
           K == proc.IgnoreEnd
           slot == footerBuffer[footerBufferLocation + 1]
           w == IF K > 0 THEN writeFields(xf.ranges, slot.rec)
                ELSE writeFields(xf.ranges, record)
           writes == K = 0 \/ ~slot.nil
           wsrc == IF K > 0 THEN slot.src ELSE src
       IN  IF ignore > 0
           THEN /\ ignore' = ignore - 1
                /\ UNCHANGED <<footerBuffer, footerBufferLocation, out, flushed,
                               status, err, calls>>
           ELSE /\ ignore' = ignore
                /\ calls' = IF writes THEN Append(calls, Call(wsrc, IF K > 0 THEN slot.rec ELSE record, FALSE, 0)) ELSE calls
                /\ out' = IF writes /\ w.kind = "ok"
                          THEN Append(out, Entry(wsrc, w.rec)) ELSE out
                /\ footerBuffer' =
                       IF K > 0 /\ ~(writes /\ w.kind = "panic")
                       THEN [footerBuffer EXCEPT ![footerBufferLocation + 1] =
                                 Entry(src, record)]
                       ELSE footerBuffer
                /\ footerBufferLocation' =
                       IF K > 0 /\ ~(writes /\ w.kind = "panic")
                       THEN AdvanceCursor(footerBufferLocation, K)
                       ELSE footerBufferLocation
                /\ status' = IF writes /\ w.kind = "panic" THEN "panic"
                             ELSE IF writes /\ w.kind = "err" THEN "error"
                             ELSE status
                /\ err' = IF writes /\ w.kind = "err"
                          THEN [kind |-> "field", idx |-> w.idx, len |-> w.len]
                          ELSE err
                /\ flushed' = IF writes /\ w.kind = "err" THEN Len(out) ELSE flushed

\* an end of stream that writes out the ring before the Flush
ProcessEOFDrain ==
    /\ status = "run"
    /\ status' = "done"
    /\ out' = out \o Residents
    /\ flushed' = Len(out')
    /\ UNCHANGED <<cfgVars, cmpVars, parseVars, input, footerBuffer,
                   footerBufferLocation, line, isFirst, ignore, err, calls>>

\* reader.Read returns io.EOF: the loop ends, Flush, nil is returned
ProcessEOF ==
    /\ status = "run"
    /\ status' = "done"
    /\ flushed' = Len(out)
    /\ UNCHANGED <<cfgVars, cmpVars, parseVars, input, footerBuffer,
                   footerBufferLocation, line, isFirst, ignore, out, err, calls>>

\* reader.Read returns another error: the loop ends, Flush, it is returned
ProcessReadError ==
    /\ status = "run"
    /\ status' = "error"
    /\ err' = [kind |-> "read", idx |-> 0, len |-> 0]
    /\ flushed' = Len(out)
    /\ UNCHANGED <<cfgVars, cmpVars, parseVars, input, footerBuffer,
                   footerBufferLocation, line, isFirst, ignore, out, calls>>

Next ==
    \/ \E record \in RecordPool : ProcessRecord(record)
    \/ \E record \in RecordPool : CursiveRecord(record)
    \/ ProcessEOF
    \/ ProcessReadError

Spec == Init /\ [][Next]_vars

(***************************************************************************)
(* Sort runs (csvsort): ReadAll collects the records the reader returns,   *)
(* then Sort truncates, orders and writes them.  sort.Sort on the short    *)
(* slices of the model is the insertion sort of package sort (the          *)
(* quicksort and heapsort paths are taken by longer slices only).          *)
(***************************************************************************)
\* x,10   x,2   x,9   y,2.0   abc
SortPool ==
    { <<<<120>>, <<49, 48>>>>, <<<<120>>, <<50>>>>, <<<<120>>, <<57>>>>,
      <<<<121>>, <<50, 46, 48>>>>, <<<<97, 98, 99>>>> }

\* -c of csvsort: (none)  2n  1,2n  1-2n
SortColumns == { <<>>, <<50, 110>>, <<49, 44, 50, 110>>, <<49, 45, 50, 110>> }

\* main of csvsort: the parsed -c, or the default range when it is empty
SortRanges(cs) ==
    IF Len(ParseFieldRanges(cs).frs) = 0
    THEN <<FieldRange(0, 0 - 1, Flag_s)>>
    ELSE ParseFieldRanges(cs).frs

SortConfigs ==
    { [tool |-> "csvsort",
       proc |-> [IgnoreBeginning |-> 0, IgnoreEnd |-> k, NoHeader |-> nh,
                 LineNumbers |-> ln[1], ZeroBased |-> ln[2], DeleteEmpty |-> FALSE],
       xf |-> [ranges |-> SortRanges(cs), repl |-> <<>>, filterMode |-> FALSE,
               invert |-> FALSE, reverse |-> rv]] :
        k \in 0..MaxIgnoreEnd, nh \in BOOLEAN,
        ln \in {<<FALSE, FALSE>>, <<TRUE, FALSE>>, <<TRUE, TRUE>>},
        cs \in SortColumns, rv \in BOOLEAN }

SortInit ==
    /\ \E cfg \in SortConfigs :
         /\ tool = cfg.tool
         /\ proc = cfg.proc
         /\ xf = cfg.xf
    /\ ignore = 0
    /\ footerBuffer = <<>>
    /\ footerBufferLocation = 0
    /\ line = 0
    /\ isFirst = FALSE
    /\ input = <<>>
    /\ out = <<>>
    /\ flushed = 0
    /\ status = "run"
    /\ err = NoErr
    /\ calls = <<>>
    /\ CmpIdle
    /\ ParseIdle

\* the result of a comparison: kind "ok" with the answer, or kind "panic"
\* when a compared index is outside a record
LessOk(b) == [kind |-> "ok", val |-> b]
LessPanic == [kind |-> "panic", val |-> FALSE]

InRange(i, r1, r2) == i >= 0 /\ i < Len(r1) /\ i < Len(r2)

\* the field indices one range makes the function of createSortFunc compare,
\* in the order it compares them: r.Start alone when r.End < 0, otherwise
\* r.Start..r.End; each with the range's flag
KeysOf(r) ==
    IF r.End < 0 THEN <<[i |-> r.Start, flag |-> r.Flag]>>
    ELSE [k \in 1..(r.End - r.Start + 1) |-> [i |-> r.Start + k - 1, flag |-> r.Flag]]

RECURSIVE KeyList(_)
KeyList(ranges) ==
    IF ranges = <<>> THEN <<>> ELSE KeysOf(Head(ranges)) \o KeyList(Tail(ranges))

\* one comparison of the function createSortFunc returns: 0 - 1, 0, 1 as cmp
\* orders the fields at the key's index, or 2 when the index is outside a
\* record (the program panics)
keyCmp(key, r1, r2, trim) ==
    IF ~InRange(key.i, r1, r2) THEN 2
    ELSE IF cmp(r1[key.i + 1], r2[key.i + 1], key.flag, trim) < 0 THEN 0 - 1
    ELSE IF cmp(r1[key.i + 1], r2[key.i + 1], key.flag, trim) > 0 THEN 1
    ELSE 0

\* the loops of that function: the first key that does not compare equal
\* decides
lessDecide(cs) ==
    IF \A k \in 1..Len(cs) : cs[k] = 0 THEN LessOk(FALSE)
    ELSE IF cs[SetMin({k \in 1..Len(cs) : cs[k] # 0})] = 2 THEN LessPanic
    ELSE LessOk(cs[SetMin({k \in 1..Len(cs) : cs[k] # 0})] < 0)

lessKeys(keys, r1, r2, trim) ==
    lessDecide([k \in 1..Len(keys) |-> keyCmp(keys[k], r1, r2, trim)])

createSortFunc(ranges, r1, r2, trim) == lessKeys(KeyList(ranges), r1, r2, trim)

\* a reverse that negates the answer of Less instead of exchanging its
\* arguments
LessNegated(e1, e2) ==
    IF xf.reverse
    THEN [createSortFunc(xf.ranges, e1.rec, e2.rec, TRUE) EXCEPT !.val =
              (createSortFunc(xf.ranges, e1.rec, e2.rec, TRUE).kind = "ok"
               /\ ~createSortFunc(xf.ranges, e1.rec, e2.rec, TRUE).val)]
    ELSE createSortFunc(xf.ranges, e1.rec, e2.rec, TRUE)

\* sortableCSV.Less, or sort.Reverse of it
Less(e1, e2) ==
    IF xf.reverse THEN createSortFunc(xf.ranges, e2.rec, e1.rec, TRUE)
    ELSE createSortFunc(xf.ranges, e1.rec, e2.rec, TRUE)

\* Swap that loses the element it moves down
SwapAtCopy(seq, j) == [seq EXCEPT ![j] = seq[j - 1]]

SwapAt(seq, j) == [seq EXCEPT ![j] = seq[j - 1], ![j - 1] = seq[j]]

\* the inner loop stopping one element short of the start of the slice
RECURSIVE SiftDownShort(_, _)
SiftDownShort(seq, j) ==
    IF j <= 2 THEN [kind |-> "ok", seq |-> seq]
    ELSE LET l == Less(seq[j], seq[j - 1])
         IN  IF l.kind = "panic" THEN [kind |-> "panic", seq |-> seq]
             ELSE IF l.val THEN SiftDownShort(SwapAt(seq, j), j - 1)
             ELSE [kind |-> "ok", seq |-> seq]

\* the inner loop of the insertion sort: for j > a && Less(j, j-1) { Swap }
RECURSIVE SiftDown(_, _)
SiftDown(seq, j) ==
    IF j <= 1 THEN [kind |-> "ok", seq |-> seq]
    ELSE LET l == Less(seq[j], seq[j - 1])
         IN  IF l.kind = "panic" THEN [kind |-> "panic", seq |-> seq]
             ELSE IF l.val THEN SiftDown(SwapAt(seq, j), j - 1)
             ELSE [kind |-> "ok", seq |-> seq]

RECURSIVE InsertionSortFrom(_, _)
InsertionSortFrom(seq, i) ==
    IF i > Len(seq) THEN [kind |-> "ok", seq |-> seq]
    ELSE LET r == SiftDown(seq, i)
         IN  IF r.kind = "panic" THEN r ELSE InsertionSortFrom(r.seq, i + 1)

SortSort(seq) == InsertionSortFrom(seq, 2)

\* reader.ReadAll reads one more record
SortRead(record) ==
    /\ status = "run"
    /\ tool = "csvsort"
    /\ Len(input) < MaxSortRecords
    /\ input' = Append(input, record)
    /\ UNCHANGED <<cfgVars, cmpVars, parseVars, footerBuffer, footerBufferLocation,
                   line, isFirst, ignore, out, flushed, status, err, calls>>

\* reader.ReadAll fails: Sort returns the error
SortReadError ==
    /\ status = "run"
    /\ tool = "csvsort"
    /\ status' = "error"
    /\ err' = [kind |-> "read", idx |-> 0, len |-> 0]
    /\ UNCHANGED <<cfgVars, cmpVars, parseVars, input, footerBuffer,
                   footerBufferLocation, line, isFirst, ignore, out, flushed, calls>>

\* the rest of Sort, once ReadAll has returned every record
Sort ==
    /\ status = "run"
    /\ tool = "csvsort"
    /\ UNCHANGED <<cfgVars, cmpVars, parseVars, input, footerBuffer,
                   footerBufferLocation, line, isFirst, ignore, calls>>
    /\ LET K == proc.IgnoreEnd
           all == [i \in 1..Len(input) |-> Entry(i, input[i])]
           c == IF K > 0 THEN SubSeq(all, 1, Len(all) - K) ELSE all
           \* sortRef = sortRef[1:] panics on an empty slice
           noRef == ~proc.NoHeader /\ Len(c) = 0
           sortRef == IF proc.NoHeader THEN c ELSE Tail(c)
           sorted == SortSort(sortRef)
           c2 == IF proc.NoHeader THEN sorted.seq ELSE <<Head(c)>> \o sorted.seq
           header == IF proc.NoHeader /\ Len(c2) > 0
                     THEN <<Entry(0, (IF proc.LineNumbers THEN <<S_N>> ELSE <<>>)
                                         \o createHeaderRecord(Len(c2[1].rec)))>>
                     ELSE <<>>
           offset == IF proc.ZeroBased THEN 0 ELSE 1
           numbered == [i \in 1..Len(c2) |->
                            Entry(c2[i].src, <<Itoa(i - 1 + offset)>> \o c2[i].rec)]
       IN  IF K > 0 /\ Len(input) < K
           THEN /\ status' = "error"
                /\ err' = [kind |-> "ignored", idx |-> 0, len |-> 0]
                /\ UNCHANGED <<out, flushed>>
           ELSE IF noRef \/ sorted.kind = "panic"
           THEN /\ status' = "panic"
                /\ UNCHANGED <<out, flushed, err>>
           ELSE /\ status' = "done"
                /\ err' = err
                /\ out' = header \o (IF proc.LineNumbers THEN numbered ELSE c2)
                \* only WriteAll flushes
                /\ flushed' = IF proc.LineNumbers THEN 0 ELSE Len(out')

SortNext ==
    \/ \E record \in SortPool : SortRead(record)
    \/ SortReadError
    \/ Sort

SpecSort == SortInit /\ [][SortNext]_vars

(***************************************************************************)
(* What a streaming run is expected to have produced, in closed form over  *)
(* the records read so far.                                                *)
(***************************************************************************)
\* the leading records cursive's -h count has skipped
Skipped == IF tool = "cursive" THEN Min2(proc.IgnoreBeginning, Len(input)) ELSE 0

LineAt(i) == InitLine(proc) + (i - 1)

HeaderAt(i) == tool # "cursive" /\ ~proc.NoHeader /\ i = 1

PrefixAt(i) ==
    IF ~proc.LineNumbers THEN <<>>
    ELSE IF HeaderAt(i) THEN <<S_N>>
    ELSE <<Itoa(LineAt(i))>>

\* the transform's result for the i-th physical record
TransformAt(i) ==
    IF tool = "cursive" THEN writeFields(xf.ranges, input[i])
    ELSE Transform(input[i], PrefixAt(i), HeaderAt(i), LineAt(i))

SynthHeader ==
    Transform(createHeaderRecord(Len(input[1])),
              IF proc.LineNumbers THEN <<S_N>> ELSE <<>>, TRUE, InitLine(proc))

HeaderPart ==
    IF proc.NoHeader /\ Len(input) > 0 THEN <<Entry(0, SynthHeader.rec)>> ELSE <<>>

Positions(P(_)) == SelectSeq([i \in 1..Len(input) |-> i], P)

ExpectOut(idx) == [k \in 1..Len(idx) |-> Entry(idx[k], TransformAt(idx[k]).rec)]

DropLast(seq, k) == SubSeq(seq, 1, Len(seq) - k)

NotDropped(i) == ~TransformAt(i).nil

NotEmpty(i) == ~isEmptyRecord(TransformAt(i).rec, proc.LineNumbers)

(***************************************************************************)
(* C1: tail trim.  A finished streaming run with ignore-end K > 0, without *)
(* delete-empty, whose transform dropped no record and whose input holds   *)
(* N > K records has emitted exactly the transform results of the first    *)
(* N - K records, in input order, each once, after the synthesized header  *)
(* in no-header mode; none of the last K records was emitted.              *)
(***************************************************************************)
ThmC1_TailTrim ==
    ( /\ status = "done"
      /\ proc.IgnoreEnd > 0
      /\ ~proc.DeleteEmpty
      /\ tool = "csvgrep" => \A i \in 1..Len(input) : NotDropped(i)
      /\ Len(input) - Skipped > proc.IgnoreEnd )
    => out = HeaderPart \o
             ExpectOut([k \in 1..(Len(input) - Skipped - proc.IgnoreEnd) |-> Skipped + k])

WitC1_TailTrim ==
    /\ status = "done"
    /\ tool = "csvcut"
    /\ proc.IgnoreEnd = 2
    /\ proc.NoHeader
    /\ ~proc.DeleteEmpty
    /\ Len(input) = 4
    /\ Len(out) = 3
    /\ out[3].src = 2

(***************************************************************************)
(* C2 as stated: whenever the input holds N <= K records, nothing at all,  *)
(* the header included, reaches the writer, in either header mode.         *)
(***************************************************************************)
ClaimC2_EmptyOutput ==
    (status = "done" /\ Len(input) <= proc.IgnoreEnd) => out = <<>>

(***************************************************************************)
(* C2 as amended: while the input holds N <= K records, no input record    *)
(* reaches the writer; with a header present the output is empty, and in   *)
(* no-header mode the output holds at most the synthesized header, written *)
(* when the first record is read.                                          *)
(***************************************************************************)
ThmC2_NoInputRecordEmitted ==
    Len(input) <= proc.IgnoreEnd
    => /\ \A k \in 1..Len(out) : out[k].src = 0
       /\ ~proc.NoHeader => out = <<>>
       /\ proc.NoHeader => \/ out = <<>>
                           \/ out = HeaderPart

WitC2_NoInputRecordEmitted ==
    /\ status = "done"
    /\ proc.IgnoreEnd = 2
    /\ Len(input) = 2
    /\ proc.NoHeader
    /\ Len(out) = 1
    /\ out[1].src = 0

(***************************************************************************)
(* C3 as stated: csvgrep with ignore-end K > 0 emits the kept (not         *)
(* filtered) records without the last K of them.                           *)
(***************************************************************************)
ClaimC3_FilteredTailTrim ==
    (status = "done" /\ tool = "csvgrep" /\ proc.IgnoreEnd > 0)
    => out = HeaderPart \o ExpectOut(DropLast(Positions(NotDropped), proc.IgnoreEnd))

(***************************************************************************)
(* C4 as stated: with delete-empty and ignore-end K > 0 the output is the  *)
(* non-empty transformed records, in input order, without the last K.      *)
(***************************************************************************)
ClaimC4_DeleteEmptyTailTrim ==
    (status = "done" /\ tool = "csvcut" /\ proc.DeleteEmpty /\ proc.IgnoreEnd > 0)
    => out = HeaderPart \o ExpectOut(DropLast(Positions(NotEmpty), proc.IgnoreEnd))

(***************************************************************************)
(* C5: header policy of Process.  In no-header mode, once a record has     *)
(* been read, exactly one header has been synthesized, on the first        *)
(* physical record: it is C1..Cn with n the field count of that record, it *)
(* is the first call of the transform and the only one made for a          *)
(* synthesized record, with isHeader = TRUE; if written it is the first    *)
(* record of the output and no data record precedes it; when the run goes  *)
(* on, the first physical record is the second call, with isHeader =       *)
(* FALSE, as every later call.  With a header present no header is         *)
(* synthesized and the transform gets isHeader = TRUE for the first        *)
(* physical record only.                                                   *)
(***************************************************************************)
ThmC5_HeaderPolicy ==
    (tool \in {"csvcut", "csvgrep"} /\ Len(input) > 0)
    => IF proc.NoHeader
       THEN /\ {k \in 1..Len(calls) : calls[k].src = 0} = {1}
            /\ calls[1].isHeader
            /\ calls[1].rec = [k \in 1..Len(input[1]) |-> <<67, 48 + k>>]
            /\ \A k \in 2..Len(calls) :
                   /\ ~calls[k].isHeader
                   /\ calls[k].src = k - 1
                   /\ calls[k].rec = input[k - 1]
            /\ \A k \in 1..Len(out) : (out[k].src = 0) <=> (k = 1)
            /\ Len(calls) >= 2 => out # <<>> /\ out[1] = Entry(0, SynthHeader.rec)
            /\ status \in {"run", "done"} => Len(calls) = Len(input) + 1
       ELSE /\ \A k \in 1..Len(calls) :
                   /\ calls[k].src = k
                   /\ calls[k].rec = input[k]
                   /\ calls[k].isHeader <=> (k = 1)
            /\ \A k \in 1..Len(out) : out[k].src > 0
            /\ Len(calls) = Len(input)

WitC5_HeaderPolicy ==
    /\ tool = "csvcut"
    /\ proc.NoHeader
    /\ proc.IgnoreEnd = 0
    /\ status = "done"
    /\ Len(input) = 3
    /\ Len(input[1]) = 2
    /\ Len(calls) = 4
    /\ Len(out) = 4

(***************************************************************************)
(* What csvsort has handed to the writer, without the line-number column   *)
(* Sort prepends when line numbers are on: the first line is the header    *)
(* (physical or synthesized), the body is what follows it.                 *)
(***************************************************************************)
StripNumber(rec) == IF proc.LineNumbers THEN Tail(rec) ELSE rec

SortBody == [k \in 1..(Len(out) - 1) |-> StripNumber(out[k + 1].rec)]

ThmC7_HeaderFirstBodyPermutation ==
    (tool = "csvsort" /\ status = "done" /\ ~proc.NoHeader)
    => /\ Len(input) - proc.IgnoreEnd >= 1
       /\ Len(out) = Len(input) - proc.IgnoreEnd
       /\ out[1].src = 1
       /\ StripNumber(out[1].rec) = input[1]
       /\ \A k \in 2..Len(out) :
              /\ out[k].src \in 2..(Len(input) - proc.IgnoreEnd)
              /\ StripNumber(out[k].rec) = input[out[k].src]
       /\ \A j, k \in 2..Len(out) : j # k => out[j].src # out[k].src

\* header (x,9), rows (x,10), (x,2) keyed on field 2 numeric: the header
\* stays first although 2 < 9
WitC7_HeaderFirstBodyPermutation ==
    /\ tool = "csvsort"
    /\ status = "done"
    /\ ~proc.NoHeader
    /\ ~xf.reverse
    /\ proc.IgnoreEnd = 0
    /\ xf.ranges = <<FieldRange(1, 0 - 1, Flag_n)>>
    /\ input = << <<<<120>>, <<57>>>>, <<<<120>>, <<49, 48>>>>, <<<<120>>, <<50>>>> >>
    /\ SortBody = << <<<<120>>, <<50>>>>, <<<<120>>, <<49, 48>>>> >>
    /\ out[1].src = 1
    /\ out[2].src = 3

(***************************************************************************)
(* What cmp hands to strconv.ParseFloat for a field, and the sign of an    *)
(* integer.                                                                *)
(***************************************************************************)
Parsed(s) == ParseFloat(IF ctrim THEN TrimSpace(s) ELSE s)

Sign(x) == IF x < 0 THEN 0 - 1 ELSE IF x > 0 THEN 1 ELSE 0

(***************************************************************************)
(* C8: cmp with flag 'n'.  If neither field parses as a number the result  *)
(* is the string comparison of the two fields; if exactly one fails to     *)
(* parse, the failing one sorts first in whichever argument position it    *)
(* is (cmp < 0 when the first fails, > 0 when the second fails); if both   *)
(* parse the result is -1, 1 or 0 as the first value is less than, greater *)
(* than or neither less nor greater than the second, so that numerically   *)
(* equal values compare equal whatever their text.                         *)
(***************************************************************************)
ThmC8_NumericCmp ==
    (cres.done /\ cflag = Flag_n)
    => /\ (~Parsed(ca).ok /\ ~Parsed(cb).ok)
              => /\ cres.ab = StrCmp(ca, cb)
                 /\ cres.ba = StrCmp(cb, ca)
       /\ (~Parsed(ca).ok /\ Parsed(cb).ok) => (cres.ab < 0 /\ cres.ba > 0)
       /\ (Parsed(ca).ok /\ ~Parsed(cb).ok) => (cres.ab > 0 /\ cres.ba < 0)
       /\ (Parsed(ca).ok /\ Parsed(cb).ok)
              => /\ FloatLess(Parsed(ca), Parsed(cb)) => (cres.ab = 0 - 1 /\ cres.ba = 1)
                 /\ FloatLess(Parsed(cb), Parsed(ca)) => (cres.ab = 1 /\ cres.ba = 0 - 1)
                 /\ (~FloatLess(Parsed(ca), Parsed(cb)) /\ ~FloatLess(Parsed(cb), Parsed(ca)))
                        => (cres.ab = 0 /\ cres.ba = 0)
       /\ cres.aa = 0
       \* the same value written with and without a fraction of zeros
       /\ (Parsed(ca).kind = "num" /\ Parsed(cb).kind = "num"
           /\ Parsed(ca).neg = Parsed(cb).neg
           /\ Parsed(ca).mant * Pow10(Parsed(cb).frac) = Parsed(cb).mant * Pow10(Parsed(ca).frac))
              => cres.ab = 0

\* "abc" against "5" and against "def"; "2.0" against "2" is the same state
\* with other operands, reached as well
WitC8_NumericCmp ==
    /\ cres.done
    /\ cflag = Flag_n
    /\ ca = <<97, 98, 99>>
    /\ cb = <<53>>
    /\ cc = <<100, 101, 102>>
    /\ cres.ab < 0
    /\ cres.ba > 0
    /\ cres.ac < 0

(***************************************************************************)
(* C9: cmp with a flag other than 'n' is a strict total order over byte    *)
(* strings: cmp(a,a) = 0; cmp(a,b) = 0 only if a = b; the sign of cmp(a,b) *)
(* is the opposite of the sign of cmp(b,a); cmp(a,b) < 0 and cmp(b,c) < 0  *)
(* imply cmp(a,c) < 0; the first differing byte decides, and a proper      *)
(* prefix sorts before the longer string.                                  *)
(***************************************************************************)
ThmC9_StringCmpTotalOrder ==
    (cres.done /\ cflag # Flag_n)
    => /\ cres.aa = 0
       /\ cres.ab = 0 => ca = cb
       /\ Sign(cres.ab) = 0 - Sign(cres.ba)
       /\ (cres.ab < 0 /\ cres.bc < 0) => cres.ac < 0
       /\ \A i \in 1..Min2(Len(ca), Len(cb)) :
              (ca[i] # cb[i] /\ \A j \in 1..(i - 1) : ca[j] = cb[j])
                  => Sign(cres.ab) = Sign(ca[i] - cb[i])
       /\ (Len(ca) < Len(cb) /\ SubSeq(cb, 1, Len(ca)) = ca) => cres.ab < 0

\* "2" < "2a" < "a": a proper prefix first, then the first differing byte
WitC9_StringCmpTotalOrder ==
    /\ cres.done
    /\ cflag = Flag_s
    /\ ca = <<50>>
    /\ cb = <<50, 97>>
    /\ cc = <<97>>
    /\ cres.ab < 0
    /\ cres.bc < 0
    /\ cres.ac < 0

(***************************************************************************)
(* C10 as stated: every token of a column spec that parses, in the single  *)
(* form N and in the span form N-M alike, has its trailing lowercase       *)
(* letter recorded as the type hint of its range (0 when it has none).     *)
(***************************************************************************)
ClaimC10_TypeHintRecorded ==
    (parsed.done /\ parsed.ok /\ colSpec # <<>>)
    => /\ Len(parsed.frs) = Len(Split(colSpec, 44))
       /\ \A k \in 1..Len(parsed.frs) :
              LET tok == Split(colSpec, 44)[k]
              IN  parsed.frs[k].Flag =
                      IF Len(tok) > 0 /\ tok[Len(tok)] \in 97..122
                      THEN tok[Len(tok)] ELSE 0

(***************************************************************************)
(* The tokens of a column spec, read off the positions of its commas, and  *)
(* what a token denotes: its text without a trailing lowercase letter is   *)
(* N or N-M, N a decimal number and M a decimal number with an optional    *)
(* sign.                                                                   *)
(***************************************************************************)
CommaCount(s) == Cardinality({q \in 1..Len(s) : s[q] = 44})

\* the position of the i-th comma; 0 before the first token, Len(s) + 1
\* after the last
CommaAt(s, i) ==
    IF i = 0 THEN 0
    ELSE IF i > CommaCount(s) THEN Len(s) + 1
    ELSE CHOOSE q \in 1..Len(s) :
             s[q] = 44 /\ Cardinality({r \in 1..q : s[r] = 44}) = i

TokenAt(s, i) == SubSeq(s, CommaAt(s, i - 1) + 1, CommaAt(s, i) - 1)

TokenBody(tok) ==
    IF Len(tok) > 0 /\ tok[Len(tok)] \in 97..122
    THEN SubSeq(tok, 1, Len(tok) - 1) ELSE tok

\* the first dash of a token body, Len + 1 when it has none
DashAt(b) == SetMin({q \in 1..Len(b) : b[q] = 45} \cup {Len(b) + 1})

TokenLeft(tok) == SubSeq(TokenBody(tok), 1, DashAt(TokenBody(tok)) - 1)

TokenRight(tok) ==
    SubSeq(TokenBody(tok), DashAt(TokenBody(tok)) + 1, Len(TokenBody(tok)))

IsSpan(tok) == DashAt(TokenBody(tok)) <= Len(TokenBody(tok))

IsNumber(d) == Len(d) > 0 /\ \A q \in 1..Len(d) : d[q] \in 48..57

IsSigned(d) ==
    IsNumber(d) \/ (Len(d) > 1 /\ d[1] \in {43, 45} /\ IsNumber(Tail(d)))

SignedVal(d) ==
    IF d[1] = 45 THEN 0 - DigitsVal(Tail(d))
    ELSE IF d[1] = 43 THEN DigitsVal(Tail(d))
    ELSE DigitsVal(d)

TokenValid(tok) ==
    IsSigned(TokenLeft(tok)) /\ (IsSpan(tok) => IsSigned(TokenRight(tok)))

(***************************************************************************)
(* C11: ParseFieldRanges on a string of k comma-separated tokens returns   *)
(* exactly k ranges, the i-th built from the i-th token: token N gives     *)
(* start N-1 and an open end (-1), token N-M gives start N-1 and end M-1;  *)
(* the empty string gives the empty list; if the numeric part of any token *)
(* is not a valid integer the call returns an error and no list.           *)
(***************************************************************************)
ThmC11_ParseFieldRanges ==
    parsed.done
    => IF colSpec = <<>> THEN parsed.ok /\ parsed.frs = <<>>
       ELSE IF \A i \in 1..(CommaCount(colSpec) + 1) : TokenValid(TokenAt(colSpec, i))
       THEN /\ parsed.ok
            /\ Len(parsed.frs) = CommaCount(colSpec) + 1
            /\ \A i \in 1..Len(parsed.frs) :
                   /\ parsed.frs[i].Start = SignedVal(TokenLeft(TokenAt(colSpec, i))) - 1
                   /\ parsed.frs[i].End =
                          IF IsSpan(TokenAt(colSpec, i))
                          THEN SignedVal(TokenRight(TokenAt(colSpec, i))) - 1
                          ELSE 0 - 1
       ELSE ~parsed.ok /\ parsed.frs = <<>>

\* "3,1n": two ranges in the order of the tokens
WitC11_ParseFieldRanges ==
    /\ parsed.done
    /\ colSpec = <<51, 44, 49, 110>>
    /\ parsed.ok
    /\ Len(parsed.frs) = 2
    /\ parsed.frs[1].Start = 2
    /\ parsed.frs[2].Start = 0

(***************************************************************************)
(* The record a streaming run stopped on, and the 0-based index its        *)
(* transform refused: the start of the first range of csvcut, or the field *)
(* of the first rule of csvgrep, that lies outside the record.             *)
(***************************************************************************)
LastRecord == input[Len(input)]

RefusedIndex ==
    IF tool = "csvcut"
    THEN xf.ranges[SetMin({k \in 1..Len(xf.ranges) :
                               xf.ranges[k].Start >= Len(LastRecord)})].Start
    ELSE xf.repl[SetMin({k \in 1..Len(xf.repl) :
                             \/ xf.repl[k].field < 0
                             \/ xf.repl[k].field >= Len(LastRecord)})].field

(***************************************************************************)
(* C12 as stated: when the cut projection or the grep transform refuses a  *)
(* record because a 0-based index s is outside it, the error names the     *)
(* 1-based index s + 1 and the length of the record.                       *)
(***************************************************************************)
ClaimC12_ErrorNamesOneBasedIndex ==
    (tool \in {"csvcut", "csvgrep"} /\ status = "error" /\ err.kind = "field")
    => /\ err.idx = RefusedIndex + 1
       /\ err.len = Len(LastRecord)

(***************************************************************************)
(* The 0-based indices a range selects, and whether one of them lies       *)
(* outside a record of n fields.                                           *)
(***************************************************************************)
Selected(r) == IF r.End < 0 THEN {r.Start} ELSE r.Start..r.End

OutOfRecord(r, n) == \E i \in Selected(r) : i < 0 \/ i >= n

(***************************************************************************)
(* C13 as stated, for the cut projection: a record for which some range    *)
(* selects an index outside 0..len-1 ends the run with a field index       *)
(* error; the run neither goes on past the record nor dies on an unchecked *)
(* access.                                                                 *)
(***************************************************************************)
ClaimC13_LazyIndexValidation ==
    tool = "csvcut"
    => \A i \in 1..Len(input) :
           (\E k \in 1..Len(xf.ranges) : OutOfRecord(xf.ranges[k], Len(input[i])))
               => /\ i = Len(input)
                  /\ status = "error"
                  /\ err.kind = "field"

(***************************************************************************)
(* The 0-based indices a range list selects, range by range in list order, *)
(* each span left to right.                                                *)
(***************************************************************************)
RECURSIVE CutIndices(_)
CutIndices(frs) ==
    IF frs = <<>> THEN <<>>
    ELSE (IF Head(frs).End < 0 THEN <<Head(frs).Start>>
          ELSE [k \in 1..(Head(frs).End - Head(frs).Start + 1) |->
                    Head(frs).Start + k - 1])
             \o CutIndices(Tail(frs))

Projected(rec) ==
    IF xf.ranges = <<>> THEN rec
    ELSE [j \in 1..Len(CutIndices(xf.ranges)) |-> rec[CutIndices(xf.ranges)[j] + 1]]

\* the record an emitted entry was made from, and the buffer it was given
SourceOf(e) ==
    IF e.src = 0 THEN [k \in 1..Len(input[1]) |-> <<67>> \o Itoa(k)]
    ELSE input[e.src]

BufferOf(e) ==
    IF ~proc.LineNumbers THEN <<>>
    ELSE IF e.src = 0 \/ (e.src = 1 /\ ~proc.NoHeader) THEN <<S_N>>
    ELSE <<Itoa(LineAt(e.src))>>

(***************************************************************************)
(* C14: the cut projection.  Every record csvcut emits is the buffer it    *)
(* was given (the line-number column, if any) followed by the fields of    *)
(* its source record the ranges select, range by range in list order, a    *)
(* span left to right, repeats kept; with no range the whole record;       *)
(* header rows (physical or synthesized) like data rows.  A record in      *)
(* which every selected index is in range never stops the run, and without *)
(* tail trim and delete-empty each such record read has been emitted.      *)
(***************************************************************************)
ThmC14_CutProjection ==
    tool = "csvcut"
    => /\ \A k \in 1..Len(out) : out[k].rec = BufferOf(out[k]) \o Projected(SourceOf(out[k]))
       /\ (status = "panic" \/ (status = "error" /\ err.kind = "field"))
              => \E k \in 1..Len(xf.ranges) : OutOfRecord(xf.ranges[k], Len(LastRecord))
       /\ (status \in {"run", "done"} /\ proc.IgnoreEnd = 0 /\ ~proc.DeleteEmpty)
              => {out[k].src : k \in 1..Len(out)} \ {0} = 1..Len(input)

\* -c 2,1 with line numbers on the header (a,TOP) and the row (b,x)
WitC14_CutProjection ==
    /\ tool = "csvcut"
    /\ status = "done"
    /\ ~proc.NoHeader
    /\ proc.LineNumbers
    /\ ~proc.ZeroBased
    /\ proc.IgnoreEnd = 0
    /\ xf.ranges = <<FieldRange(1, 0 - 1, 0), FieldRange(0, 0 - 1, 0)>>
    /\ input = << <<<<97>>, <<84, 79, 80>>>>, <<<<98>>, <<120>>>> >>
    /\ Len(out) = 2
    /\ out[1].rec = <<S_N, <<84, 79, 80>>, <<97>>>>
    /\ out[2].rec = <<<<49>>, <<120>>, <<98>>>>

(***************************************************************************)
(* What the rules of csvgrep decide for a data record: the first rule, in  *)
(* declaration order, whose field is outside the record (the transform     *)
(* fails) or whose match result equals the invert flag while filtering is  *)
(* on (the record is dropped) decides; with no such rule the record is     *)
(* kept.                                                                   *)
(***************************************************************************)
RuleOutside(k, rec) == xf.repl[k].field < 0 \/ xf.repl[k].field >= Len(rec)

RuleRejects(k, rec) ==
    xf.filterMode /\ (MatchString(xf.repl[k].re, rec[xf.repl[k].field + 1]) = xf.invert)

Deciding(rec) ==
    {k \in 1..Len(xf.repl) : RuleOutside(k, rec) \/ RuleRejects(k, rec)}

GrepFate(rec) ==
    IF Deciding(rec) = {} THEN "kept"
    ELSE IF RuleOutside(SetMin(Deciding(rec)), rec) THEN "fails"
    ELSE "dropped"

\* the records csvgrep has written or holds back in the ring
GrepHeld ==
    {out[k] : k \in 1..Len(out)}
        \cup {footerBuffer[k] : k \in {j \in 1..Len(footerBuffer) : ~footerBuffer[j].nil}}

\* the physical records whose transform has returned without an error
GrepTransformed ==
    IF status = "error" /\ err.kind = "field" THEN 1..(Len(input) - 1)
    ELSE 1..Len(input)

(***************************************************************************)
(* C15: the grep transform.  A data record is kept iff no rule rejects it; *)
(* with filtering on a rule rejects when the match result of its field     *)
(* equals the invert flag, with filtering off no rule rejects; the first   *)
(* rule in declaration order that rejects or lies outside the record       *)
(* decides (drop or error).  A kept record comes out verbatim in every     *)
(* field no rule replaces; header records, physical or synthesized, come   *)
(* out verbatim whatever the rules.  Stated over the records written or    *)
(* held back in the ring.                                                  *)
(***************************************************************************)
ThmC15_GrepTransform ==
    tool = "csvgrep"
    => /\ {e.src : e \in GrepHeld} \ {0}
              = {i \in GrepTransformed : HeaderAt(i) \/ GrepFate(input[i]) = "kept"}
       /\ (status = "error" /\ err.kind = "field")
              => (GrepFate(LastRecord) = "fails" /\ ~HeaderAt(Len(input)))
       /\ \A i \in GrepTransformed : HeaderAt(i) \/ GrepFate(input[i]) # "fails"
       /\ ~xf.filterMode => \A i \in GrepTransformed : \E e \in GrepHeld : e.src = i
       /\ \A e \in GrepHeld :
              IF e.src = 0 \/ HeaderAt(e.src) THEN e.rec = SourceOf(e)
              ELSE /\ Len(e.rec) = Len(input[e.src])
                   /\ \A j \in 1..Len(e.rec) :
                          (\A k \in 1..Len(xf.repl) :
                               xf.repl[k].field = j - 1 => ~xf.repl[k].isReplace)
                              => e.rec[j] = input[e.src][j]
       /\ \A j, k \in 1..Len(out) : j < k => out[j].src < out[k].src

\* -r2=TOP, filtering on, not inverted: header (b,x) passes, (a,TOP) is
\* kept verbatim, (b,x) as a data row is dropped
WitC15_GrepTransform ==
    /\ tool = "csvgrep"
    /\ status = "done"
    /\ ~proc.NoHeader
    /\ proc.IgnoreEnd = 0
    /\ xf.filterMode
    /\ ~xf.invert
    /\ Len(xf.repl) = 1
    /\ input = << <<<<98>>, <<120>>>>, <<<<97>>, <<84, 79, 80>>>>, <<<<98>>, <<120>>>> >>
    /\ out = <<Entry(1, <<<<98>>, <<120>>>>), Entry(2, <<<<97>>, <<84, 79, 80>>>>)>>

(***************************************************************************)
(* Whole-record string order: the first field in which two records differ  *)
(* decides, by byte-wise comparison; a record that is a proper prefix of   *)
(* another comes first.                                                    *)
(***************************************************************************)
WholeLess(a, b) ==
    LET D == {j \in 1..Min2(Len(a), Len(b)) : a[j] # b[j]}
    IN  IF D = {} THEN Len(a) < Len(b)
        ELSE StrCmp(a[SetMin(D)], b[SetMin(D)]) < 0

(***************************************************************************)
(* C16 as stated: with an empty column spec csvsort orders by the whole    *)
(* record in string order: two records that differ in any field are never  *)
(* equal under the comparator, and the emitted body is in whole-record     *)
(* order (reversed under -r).                                              *)
(***************************************************************************)
ClaimC16_DefaultKeyWholeRecord ==
    (tool = "csvsort" /\ status = "done" /\ xf.ranges = <<FieldRange(0, 0 - 1, Flag_s)>>)
    => /\ \A i, j \in 1..Len(SortBody) :
              SortBody[i] # SortBody[j]
                  => \/ createSortFunc(xf.ranges, SortBody[i], SortBody[j], TRUE).val
                     \/ createSortFunc(xf.ranges, SortBody[j], SortBody[i], TRUE).val
       /\ \A k \in 1..(Len(SortBody) - 1) :
              IF xf.reverse THEN ~WholeLess(SortBody[k], SortBody[k + 1])
              ELSE ~WholeLess(SortBody[k + 1], SortBody[k])

ClaimC18_StaticTruncation ==
    ( /\ tool = "csvsort"
      /\ status # "run"
      /\ err.kind # "read"
      /\ \A i \in 1..Len(input) : \A k \in 1..Len(xf.ranges) :
             ~OutOfRecord(xf.ranges[k], Len(input[i])) )
    => IF proc.IgnoreEnd > Len(input)
       THEN status = "error" /\ out = <<>>
       ELSE /\ status = "done"
            /\ \A k \in 1..Len(out) : out[k].src <= Len(input) - proc.IgnoreEnd

(***************************************************************************)
(* C19 as stated: when Process or Sort has returned, normally or with an   *)
(* error, every record handed to the writer has been flushed.              *)
(***************************************************************************)
ClaimC19_FlushedOnReturn ==
    status \in {"done", "error"} => flushed = Len(out)

(***************************************************************************)
(* One step of a csvcut or csvgrep run, as fail-fast allows it.            *)
(***************************************************************************)
FailFastStep ==
    tool \in {"csvcut", "csvgrep"}
    => \* once Process has returned nothing more is read, transformed or emitted
       /\ status # "run"
              => (input' = input /\ out' = out /\ calls' = calls
                  /\ status' = status /\ err' = err)
       \* a failure: at most the failing record was read, the error is the
       \* reader's or the transform's, and nothing is written but, before a
       \* failing first record, the synthesized header
       /\ (status = "run" /\ status' = "error")
              => /\ err'.kind \in {"field", "read"}
                 /\ Len(input') <= Len(input) + 1
                 /\ err'.kind = "read" => (input' = input /\ out' = out)
                 /\ Len(out') >= Len(out)
                 /\ SubSeq(out', 1, Len(out)) = out
                 /\ \A k \in (Len(out) + 1)..Len(out') : out'[k].src = 0
                 /\ footerBuffer' = footerBuffer
       \* end of stream: success, nothing more written
       /\ (status = "run" /\ status' = "done")
              => (input' = input /\ out' = out /\ err' = NoErr)
       \* no run goes on past a record its transform fails on
       /\ (status' = "run" /\ input' # input)
              => /\ Len(input') = Len(input) + 1
                 /\ IF tool = "csvcut"
                    THEN \A k \in 1..Len(xf.ranges) :
                             ~OutOfRecord(xf.ranges[k], Len(input'[Len(input')]))
                    ELSE \/ ~proc.NoHeader /\ Len(input') = 1
                         \/ GrepFate(input'[Len(input')]) # "fails"

(***************************************************************************)
(* C20: fail-fast in Process.  When the reader or the transform fails on a *)
(* record, no later record is read, transformed or emitted, the failing    *)
(* record is not emitted, the records resident in the ring are not         *)
(* emitted, and Process returns that error; at end of stream Process       *)
(* returns success; no run skips a failing record and goes on.             *)
(***************************************************************************)
ThmC20_FailFast == [][FailFastStep]_vars

\* csvcut -c 2,1 -ei=1 on (a,TOP), (b,x), (c): the third record fails, the
\* first was written and the second stays in the ring
WitC20_FailFast ==
    /\ tool = "csvcut"
    /\ status = "error"
    /\ err.kind = "field"
    /\ proc.IgnoreEnd = 1
    /\ ~proc.NoHeader
    /\ Len(input) = 3
    /\ Len(out) = 1
    /\ out[1].src = 1
    /\ footerBuffer[1].src = 2
    /\ flushed = 1

(***************************************************************************)
(* A record whose cut projection holds only fields that are the empty      *)
(* string or the two-character literal "" (the line-number column is not   *)
(* part of the projection).                                                *)
(***************************************************************************)
EmptyProjected(rec) ==
    \A j \in 1..Len(Projected(rec)) : Projected(rec)[j] \in {<<>>, <<34, 34>>}

DeleteEmptyStep ==
    (tool = "csvcut" /\ proc.DeleteEmpty /\ proc.IgnoreEnd > 0)
    => /\ ( /\ Len(input') = Len(input) + 1
            /\ status' = "run"
            /\ EmptyProjected(input'[Len(input')]) )
              => /\ footerBuffer' = footerBuffer
                 /\ footerBufferLocation' = footerBufferLocation
       /\ \A k \in 1..Len(out') :
              out'[k].src > 0 => ~EmptyProjected(input'[out'[k].src])
       /\ \A k \in 1..Len(footerBuffer') :
              ~footerBuffer'[k].nil => ~EmptyProjected(input'[footerBuffer'[k].src])

(***************************************************************************)
(* C21: delete-empty with ignore-end K > 0.  Processing a record whose     *)
(* transformed fields, the line-number column aside, are all the empty     *)
(* string or the literal "" leaves the slots of the ring and its write     *)
(* cursor unchanged, and such a record is never written nor stored.        *)
(***************************************************************************)
ThmC21_DeleteEmptyFrame == [][DeleteEmptyStep]_vars

\* csvcut -d -ei=2 on (c) and the empty row: the ring still holds (c) alone
\* and the cursor still points at the second slot
WitC21_DeleteEmptyFrame ==
    /\ tool = "csvcut"
    /\ status = "run"
    /\ proc.DeleteEmpty
    /\ proc.IgnoreEnd = 2
    /\ input = << <<<<99>>>>, <<<<>>, <<34, 34>>>> >>
    /\ footerBufferLocation = 1
    /\ footerBuffer[1].src = 1
    /\ footerBuffer[2].nil

(***************************************************************************)
(* C22 as stated: Sort with line numbers on emits the header (physical or  *)
(* synthesized) first, and the k-th emitted body record is the sorted      *)
(* record prefixed with k when 1-based and k - 1 when zero-based, in both  *)
(* header modes alike.                                                     *)
(***************************************************************************)
ClaimC22_SortLineNumbers ==
    (tool = "csvsort" /\ status = "done" /\ proc.LineNumbers /\ out # <<>>)
    => /\ out[1].src = (IF proc.NoHeader THEN 0 ELSE 1)
       /\ \A k \in 1..(Len(out) - 1) :
              /\ out[k + 1].src > 0
              /\ out[k + 1].rec =
                     <<Itoa(IF proc.ZeroBased THEN k - 1 ELSE k)>> \o input[out[k + 1].src]

(***************************************************************************)
(* C23 as stated: in no-header mode Sort emits first the header C1..Cn     *)
(* (after the label N when line numbers are on), n being the field count   *)
(* of the first physical record of the input, whatever order the sort      *)
(* produces.                                                               *)
(***************************************************************************)
ClaimC23_SortSynthesizedHeader ==
    ( /\ tool = "csvsort"
      /\ status = "done"
      /\ proc.NoHeader
      /\ Len(input) - proc.IgnoreEnd > 0 )
    => /\ out # <<>>
       /\ out[1].src = 0
       /\ out[1].rec = (IF proc.LineNumbers THEN <<S_N>> ELSE <<>>)
                           \o [k \in 1..Len(input[1]) |-> <<67>> \o Itoa(k)]

(***************************************************************************)
(* The records csvcut has written or holds back in the ring, and the       *)
(* position of a physical record among the data records.                   *)
(***************************************************************************)
CutHeld ==
    {out[k] : k \in 1..Len(out)}
        \cup {footerBuffer[k] : k \in {j \in 1..Len(footerBuffer) : ~footerBuffer[j].nil}}

DataIndex(i) == IF proc.NoHeader THEN i ELSE i - 1

(***************************************************************************)
(* C24: line numbering in Process.  With line numbers on, the header row   *)
(* (physical or synthesized) carries the label N in the leading column and *)
(* the j-th physical data record carries j when 1-based and j - 1 when     *)
(* zero-based, with a header present or synthesized alike, whatever the    *)
(* ignore-end count and however many earlier records were deleted or held  *)
(* back.                                                                   *)
(***************************************************************************)
ThmC24_ProcessLineNumbers ==
    (tool = "csvcut" /\ proc.LineNumbers)
    => \A e \in CutHeld :
           /\ Len(e.rec) >= 1
           /\ e.rec[1] =
                  IF e.src = 0 \/ (e.src = 1 /\ ~proc.NoHeader) THEN <<78>>
                  ELSE Itoa(DataIndex(e.src) - (IF proc.ZeroBased THEN 1 ELSE 0))

\* csvcut -l -d on the header (a,TOP), an empty row and (b,x): the header
\* carries N and (b,x), the second data record, carries 2
WitC24_ProcessLineNumbers ==
    /\ tool = "csvcut"
    /\ status = "done"
    /\ proc.LineNumbers
    /\ ~proc.ZeroBased
    /\ ~proc.NoHeader
    /\ proc.DeleteEmpty
    /\ proc.IgnoreEnd = 0
    /\ xf.ranges = <<>>
    /\ input = << <<<<97>>, <<84, 79, 80>>>>, <<<<>>, <<34, 34>>>>, <<<<98>>, <<120>>>> >>
    /\ out = <<Entry(1, <<<<78>>, <<97>>, <<84, 79, 80>>>>),
               Entry(3, <<<<50>>, <<98>>, <<120>>>>)>>

(***************************************************************************)
(* C25 as stated: in every run of Process no input record is emitted more  *)
(* than once and emitted records keep their input order: after the         *)
(* synthesized header, if any, the records emitted come from strictly      *)
(* increasing positions of the input.                                      *)
(***************************************************************************)
ClaimC25_EmittedOnceInOrder ==
    tool \in {"csvcut", "csvgrep"}
    => \A j, k \in 1..Len(out) : j < k => out[j].src < out[k].src

(***************************************************************************)
(* The comparator createSortFunc builds for the one key "1" with the flag  *)
(* of the run, applied to one-field records.                               *)
(***************************************************************************)
KeyLess(a, b) ==
    createSortFunc(<<FieldRange(0, 0 - 1, cflag)>>, <<a>>, <<b>>, ctrim).val

KeyEquiv(a, b) == ~KeyLess(a, b) /\ ~KeyLess(b, a)

(***************************************************************************)
(* C26 as stated: the comparator built by createSortFunc is a strict weak  *)
(* ordering: less(a,a) is false; less(a,b) implies not less(b,a); less is  *)
(* transitive; and 'neither less(a,b) nor less(b,a)' is transitive.        *)
(***************************************************************************)
ClaimC26_StrictWeakOrdering ==
    cres.done
    => /\ ~KeyLess(ca, ca)
       /\ KeyLess(ca, cb) => ~KeyLess(cb, ca)
       /\ (KeyLess(ca, cb) /\ KeyLess(cb, cc)) => KeyLess(ca, cc)
       /\ (KeyEquiv(ca, cb) /\ KeyEquiv(cb, cc)) => KeyEquiv(ca, cc)

====
